---- MODULE Spec2Model ----
(***************************************************************************)
(* QCoro::Generator<T> (src/qcoro/qcorogenerator.h): the generator         *)
(* coroutine's promise (GeneratorPromise), the iterator that drives it     *)
(* (GeneratorIterator) and the owning handle (Generator).                  *)
(*                                                                         *)
(* A generator coroutine body is a straight-line program of co_yield       *)
(* statements that ends by returning or by throwing.  The consumer may     *)
(* call the public operations in any order.                                *)
(***************************************************************************)
EXTENDS Integers, Sequences, FiniteSets, TLC

\* ------------------------------------------------------- sizes of the model
MaxYields == 2
NumCursors == 2

Frames    == {1, 2}
Values    == {1, 2}
Failures  == {101, 102}
Cursors   == 1..NumCursors

\* ------------------------------------------------ the generator coroutine
\* std::coroutine_handle{nullptr}
nullptr == 0
\* a default-constructed std::exception_ptr
NoException == 0

RECURSIVE SeqsUpTo(_, _)
SeqsUpTo(S, n) ==
    IF n = 0 THEN {<<>>}
    ELSE LET shorter == SeqsUpTo(S, n - 1)
         IN  shorter \cup {Append(s, x) : s \in {t \in shorter : Len(t) = n - 1}, x \in S}

YieldStmt(v) == [op |-> "co_yield", arg |-> v]
ThrowStmt(e) == [op |-> "throw", arg |-> e]

\* The bodies of generator coroutines: up to MaxYields co_yield statements,
\* then either the end of the function or a throw statement.
Bodies ==
    LET yields == SeqsUpTo({YieldStmt(v) : v \in Values}, MaxYields)
    IN  yields \cup {Append(y, ThrowStmt(e)) : y \in yields, e \in Failures}

\* std::variant<std::monostate, T, std::exception_ptr> mValue
Monostate    == [tag |-> "monostate", val |-> 0]
Holds(v)     == [tag |-> "T", val |-> v]
Caught(e)    == [tag |-> "exception_ptr", val |-> e]

suspend_always == "suspend_always"
suspend_never  == "suspend_never"

\* (variant: the coroutine starts running when it is called)
initial_suspend_never == suspend_never
\* GeneratorPromise::initial_suspend
initial_suspend == suspend_always

\* (variant: the coroutine is not suspended at its end)
final_suspend_never(mValue) == [mValue |-> Monostate, awaiter |-> suspend_never]
\* GeneratorPromise::final_suspend: mValue = std::monostate{}; return {};
final_suspend(mValue) == [mValue |-> Monostate, awaiter |-> suspend_always]

\* (variant: the exception is stored and thrown on)
unhandled_exception_rethrows(mValue, e) == [mValue |-> Caught(e), rethrown |-> e]
\* GeneratorPromise::unhandled_exception: mValue = std::current_exception();
\* "rethrown" is the exception that leaves the function (none).
unhandled_exception(mValue, e) == [mValue |-> Caught(e), rethrown |-> NoException]

\* (variant: the coroutine is not suspended at co_yield)
yield_value_never(mValue, from) == [mValue |-> Holds(from), awaiter |-> suspend_never]
\* (variant: a value already held is not replaced)
yield_value_stale(mValue, from) ==
    [mValue |-> IF mValue.tag = "T" THEN mValue ELSE Holds(from), awaiter |-> suspend_always]
\* GeneratorPromise::yield_value: mValue.emplace<T>(from); return {};
yield_value(mValue, from) == [mValue |-> Holds(from), awaiter |-> suspend_always]

\* GeneratorPromise::exception
exception(mValue) ==
    IF mValue.tag = "exception_ptr" THEN mValue.val ELSE NoException

\* (variant: the wrong alternative is tested)
finished_wrong(mValue) == mValue.tag = "exception_ptr"
\* GeneratorPromise::finished
finished(mValue) == mValue.tag = "monostate"

\* GeneratorPromise::value: std::get<T>(mValue) throws std::bad_variant_access
\* when mValue holds another alternative.
value(mValue) ==
    IF mValue.tag = "T" THEN [ok |-> TRUE, val |-> mValue.val]
    ELSE [ok |-> FALSE, val |-> 0]

\* The coroutine frame the compiler allocates when the generator function is
\* called: the suspend point, the next statement of the body, the promise's
\* mValue, and a scoped guard the body holds from its first statement to the
\* end of its scope.
NewFrame ==
    [at |-> "initial", pc |-> 1, mValue |-> Monostate,
     held |-> FALSE, released |-> 0, destroyed |-> 0, escaped |-> NoException]

\* Leaving the body's scope (return, exception unwinding or destroy()) runs
\* the destructors of the body's locals.
Unwind(fr) ==
    IF fr.held THEN [fr EXCEPT !.held = FALSE, !.released = @ + 1] ELSE fr

\* std::coroutine_handle::destroy on a suspended coroutine
destroy(fr) == [Unwind(fr) EXCEPT !.at = "destroyed", !.destroyed = @ + 1]

\* co_await promise.final_suspend()
AtFinalSuspend(fr) ==
    LET fin == final_suspend(fr.mValue)
        f1  == [fr EXCEPT !.mValue = fin.mValue, !.at = "final"]
    IN  IF fin.awaiter = suspend_always THEN f1 ELSE destroy(f1)

\* The coroutine runs from its suspend point to the next one.
RECURSIVE Run(_, _)
Run(fr, body) ==
    IF fr.pc > Len(body)
    THEN \* falls off the end: return_void(), locals destroyed, final_suspend
         AtFinalSuspend(Unwind([fr EXCEPT !.held = TRUE]))
    ELSE LET stmt == body[fr.pc]
             f0   == [fr EXCEPT !.held = TRUE, !.pc = @ + 1]
         IN  IF stmt.op = "co_yield"
             THEN LET y  == yield_value(f0.mValue, stmt.arg)
                      f1 == [f0 EXCEPT !.mValue = y.mValue, !.at = "yield"]
                  IN  IF y.awaiter = suspend_always THEN f1 ELSE Run(f1, body)
             ELSE \* throw: unwinding, then catch (...) { unhandled_exception(); }
                  LET u  == unhandled_exception(f0.mValue, stmt.arg)
                      f1 == [Unwind(f0) EXCEPT !.mValue = u.mValue]
                  IN  IF u.rethrown = NoException
                      THEN AtFinalSuspend(f1)
                      ELSE [f1 EXCEPT !.at = "final", !.escaped = u.rethrown]

\* (variant: the coroutine starts over)
resume_restarts(fr, body) == Run([fr EXCEPT !.escaped = NoException, !.pc = 1], body)
\* std::coroutine_handle::resume on a coroutine suspended before its final
\* suspend point.
resume(fr, body) == Run([fr EXCEPT !.escaped = NoException], body)

\* Calling the generator function: the frame is allocated, the Generator is
\* built by get_return_object, and initial_suspend is awaited.
Call(body) ==
    IF initial_suspend = suspend_always THEN NewFrame ELSE resume(NewFrame, body)

\* ------------------------------------------------------------- the state
VARIABLES
    body,       \* body[f]: the statements of generator coroutine f
    frame,      \* frame[f]: the coroutine frame of f (with its promise)
    generator,  \* generator[g]: the Generator<T> object returned by call g
    iterator,   \* iterator[c]: the GeneratorIterator<T> objects made so far
    made,       \* how many GeneratorIterator<T> objects were made
    hist,       \* hist[c]: where iterator c came from, how often operator++
                \* resumed the coroutine through it, and whether one of these
                \* calls ran the coroutine to its end
    seen,       \* seen[f]: what the caller has read of generator f, in order
    drives,     \* drives[f]: how often frame f was resumed
    thrown,     \* the exception the last operation threw at its caller
    fate        \* whether the program runs, has called std::terminate, or has
                \* run into undefined behaviour

vars == <<body, frame, generator, iterator, made, hist, seen, drives, thrown, fate>>

\* GeneratorIterator(std::nullptr_t) and
\* GeneratorIterator(std::coroutine_handle<promise_type>)
GeneratorIterator(generatorCoroutine) == [mGeneratorCoroutine |-> generatorCoroutine]

\* Generator(std::coroutine_handle<promise_type>)
Generator(generatorCoroutine) ==
    [alive |-> TRUE, mGeneratorCoroutine |-> generatorCoroutine]

\* What the caller has read of a generator: one entry for each read that
\* differs from the read before it in the value or in the number of times the
\* coroutine had been resumed.
Observe(log, pos, val) ==
    IF log # <<>> /\ log[Len(log)] = [pos |-> pos, val |-> val] THEN log
    ELSE Append(log, [pos |-> pos, val |-> val])

NoHist == [origin |-> 0, born |-> "none", adv |-> 0, ended |-> FALSE]

Running    == [what |-> "running", crashed |-> FALSE]
Terminated == [what |-> "std::terminate", crashed |-> TRUE]

\* A generator function that was not called: no frame, no Generator object
NotCalled == [NewFrame EXCEPT !.at = "none"]
NoGenerator == [alive |-> FALSE, mGeneratorCoroutine |-> nullptr]

\* The generator functions in Called have been called, each with its own frame
Start(Called) ==
    /\ body \in [Frames -> Bodies]
    /\ \A f \in Frames \ Called : body[f] = <<>>
    /\ \A f \in Called, g \in Called : body[f] = body[g]
    /\ frame = [f \in Frames |-> IF f \in Called THEN Call(body[f]) ELSE NotCalled]
    /\ generator = [f \in Frames |-> IF f \in Called THEN Generator(f) ELSE NoGenerator]
    /\ iterator = [c \in Cursors |-> GeneratorIterator(nullptr)]
    /\ made = 0
    /\ hist = [c \in Cursors |-> NoHist]
    /\ seen = [f \in Frames |-> <<>>]
    /\ drives = [f \in Frames |-> 0]
    /\ thrown = NoException
    /\ fate = Running

\* One generator function is called once
Init == Start({1})

\* One generator function is called twice
InitTwo == Start(Frames)

\* The program does something the language leaves undefined: it may crash or
\* go on with whatever the operation happens to do.
UndefinedFates(kind) == {[what |-> kind, crashed |-> crashed] : crashed \in BOOLEAN}

Undefined(kind) ==
    /\ fate' \in UndefinedFates(kind)
    /\ thrown' = NoException
    /\ UNCHANGED <<body, frame, generator, iterator, made, hist, seen, drives>>

\* resume() needs a coroutine suspended before its final suspend point
Resumable(fr) == fr.at \in {"initial", "yield"}
WhyNotResumable(fr) ==
    IF fr.at = "destroyed" THEN "resume of a destroyed coroutine"
    ELSE "resume of a finished coroutine"

\* ---------------------------------------------------------- Generator<T>
\* (variant: begin() does not look at finished())
BeginResult_live(fr, h) == GeneratorIterator(h)
\* The GeneratorIterator<T> that begin() returns once the coroutine was resumed
BeginResult(fr, h) ==
    IF finished(fr.mValue) THEN GeneratorIterator(nullptr) ELSE GeneratorIterator(h)

\* Generator::begin
Begin(g) ==
    LET h == generator[g].mGeneratorCoroutine
        c == made + 1
    IN  /\ fate = Running
        /\ generator[g].alive
        /\ c \in Cursors
        /\ IF ~Resumable(frame[h])
           THEN Undefined(WhyNotResumable(frame[h]))
           ELSE LET fr == resume(frame[h], body[h])
                IN  /\ frame' = [frame EXCEPT ![h] = fr]
                    /\ drives' = [drives EXCEPT ![h] = @ + 1]
                    /\ UNCHANGED <<body, generator, seen>>
                    /\ IF fr.escaped # NoException
                       THEN \* the exception leaves resume() and begin()
                            /\ thrown' = fr.escaped
                            /\ UNCHANGED <<iterator, made, hist, fate>>
                       ELSE IF fr.at = "destroyed"
                       THEN \* promise() of a frame that is gone
                            /\ fate' \in UndefinedFates("read of a destroyed coroutine")
                            /\ thrown' = NoException
                            /\ UNCHANGED <<iterator, made, hist>>
                       ELSE /\ iterator' = [iterator EXCEPT ![c] = BeginResult(fr, h)]
                            /\ made' = c
                            /\ hist' = [hist EXCEPT ![c] =
                                   [origin |-> h, born |-> "begin", adv |-> 0, ended |-> FALSE]]
                            /\ thrown' = NoException
                            /\ UNCHANGED fate

\* Generator::end
end == GeneratorIterator(nullptr)

End(g) ==
    /\ fate = Running
    /\ generator[g].alive
    /\ thrown' = NoException
    /\ UNCHANGED <<body, frame, generator, iterator, made, hist, seen, drives, fate>>

\* (variant: a finished coroutine is left alone)
DestroyedUnlessDone(fr) == IF fr.at = "final" THEN fr ELSE destroy(fr)
\* Generator::~Generator: mGeneratorCoroutine.destroy();
Destroyed(fr) == destroy(fr)

DestroyGenerator(g) ==
    LET h == generator[g].mGeneratorCoroutine
    IN  /\ fate = Running
        /\ generator[g].alive
        /\ generator' = [generator EXCEPT ![g].alive = FALSE]
        /\ IF frame[h].at = "destroyed"
           THEN /\ fate' \in UndefinedFates("destroy of a destroyed coroutine")
                /\ UNCHANGED frame
           ELSE /\ frame' = [frame EXCEPT ![h] = Destroyed(frame[h])]
                /\ UNCHANGED fate
        /\ thrown' = NoException
        /\ UNCHANGED <<body, iterator, made, hist, seen, drives>>

\* ------------------------------------------------- GeneratorIterator<T>
\* (variant: the handle is kept when the coroutine has finished)
AdvanceResult_keeps(fr, it) == it
\* GeneratorIterator::operator++, after the coroutine was resumed:
\* if (promise().finished()) mGeneratorCoroutine = nullptr; return *this;
AdvanceResult(fr, it) ==
    IF finished(fr.mValue) THEN GeneratorIterator(nullptr) ELSE it

\* GeneratorIterator::operator++
Advance(c) ==
    LET h == iterator[c].mGeneratorCoroutine
    IN  /\ fate = Running
        /\ c <= made
        /\ IF h = nullptr
           THEN /\ thrown' = NoException
                /\ UNCHANGED <<body, frame, generator, iterator, made, hist, seen, drives, fate>>
           ELSE IF ~Resumable(frame[h])
           THEN Undefined(WhyNotResumable(frame[h]))
           ELSE LET fr == resume(frame[h], body[h])
                    it == AdvanceResult(fr, iterator[c])
                IN  /\ frame' = [frame EXCEPT ![h] = fr]
                    /\ drives' = [drives EXCEPT ![h] = @ + 1]
                    /\ hist' = [hist EXCEPT ![c].adv = @ + 1,
                                            ![c].ended = (fr.at = "final")]
                    /\ UNCHANGED <<body, generator, made, seen>>
                    /\ IF fr.escaped # NoException
                       THEN \* an exception leaves a noexcept function
                            /\ fate' = Terminated
                            /\ thrown' = NoException
                            /\ UNCHANGED iterator
                       ELSE IF fr.at = "destroyed"
                       THEN /\ fate' \in UndefinedFates("read of a destroyed coroutine")
                            /\ thrown' = NoException
                            /\ UNCHANGED iterator
                       ELSE /\ iterator' = [iterator EXCEPT ![c] = it]
                            /\ thrown' = NoException
                            /\ UNCHANGED fate

\* (variant: reading moves the value out of the promise)
Deref_takes(c) ==
    LET h == iterator[c].mGeneratorCoroutine
    IN  /\ fate = Running
        /\ c <= made
        /\ IF h = nullptr
           THEN Undefined("promise of a null handle")
           ELSE IF frame[h].at = "destroyed"
           THEN Undefined("read of a destroyed coroutine")
           ELSE LET m == frame[h].mValue
                IN  /\ UNCHANGED <<body, generator, iterator, made, hist, drives>>
                    /\ thrown' = NoException
                    /\ IF exception(m) # NoException \/ ~value(m).ok
                       THEN /\ fate' = Terminated
                            /\ UNCHANGED <<frame, seen>>
                       ELSE /\ frame' = [frame EXCEPT ![h].mValue = Monostate]
                            /\ seen' = [seen EXCEPT ![h] =
                                   Observe(@, drives[h], value(m).val)]
                            /\ UNCHANGED fate

\* GeneratorIterator::operator*
Deref(c) ==
    LET h == iterator[c].mGeneratorCoroutine
    IN  /\ fate = Running
        /\ c <= made
        /\ IF h = nullptr
           THEN Undefined("promise of a null handle")
           ELSE IF frame[h].at = "destroyed"
           THEN Undefined("read of a destroyed coroutine")
           ELSE LET m == frame[h].mValue
                IN  /\ UNCHANGED <<body, frame, generator, iterator, made, hist, drives>>
                    /\ IF exception(m) # NoException \/ ~value(m).ok
                       THEN \* std::rethrow_exception, or std::bad_variant_access
                            \* from std::get, inside a noexcept function
                            /\ fate' = Terminated
                            /\ thrown' = NoException
                            /\ UNCHANGED seen
                       ELSE /\ thrown' = NoException
                            /\ seen' = [seen EXCEPT ![h] =
                                   Observe(@, drives[h], value(m).val)]
                            /\ UNCHANGED fate

\* GeneratorIterator::operator==
Equal(a, b) == a.mGeneratorCoroutine = b.mGeneratorCoroutine

\* GeneratorIterator::operator!=
NotEqual(a, b) == ~Equal(a, b)

\* The iterators a caller can hold: the ones made, and what end() returns
Held == {iterator[c] : c \in 1..made} \cup {end}

Compare ==
    /\ fate = Running
    /\ \E a \in Held, b \in Held : Equal(a, b) \in BOOLEAN
    /\ thrown' = NoException
    /\ UNCHANGED <<body, frame, generator, iterator, made, hist, seen, drives, fate>>

\* The implicit copy constructor of GeneratorIterator
CopyIterator(c) ==
    LET d == made + 1
    IN  /\ fate = Running
        /\ c <= made
        /\ d \in Cursors
        /\ iterator' = [iterator EXCEPT ![d] = iterator[c]]
        /\ made' = d
        /\ hist' = [hist EXCEPT ![d] =
               [origin |-> hist[c].origin, born |-> "copy", adv |-> 0, ended |-> FALSE]]
        /\ thrown' = NoException
        /\ UNCHANGED <<body, frame, generator, seen, drives, fate>>

Next ==
    \/ \E g \in Frames : Begin(g)
    \/ \E g \in Frames : End(g)
    \/ \E g \in Frames : DestroyGenerator(g)
    \/ \E c \in Cursors : Advance(c)
    \/ \E c \in Cursors : Deref(c)
    \/ \E c \in Cursors : CopyIterator(c)
    \/ Compare

Spec == Init /\ [][Next]_vars

\* Two generators: operator* is left out, it changes no frame, no Generator
\* and no iterator.
NextTwo ==
    \/ \E g \in Frames : Begin(g)
    \/ \E g \in Frames : End(g)
    \/ \E g \in Frames : DestroyGenerator(g)
    \/ \E c \in Cursors : Advance(c)
    \/ \E c \in Cursors : CopyIterator(c)
    \/ Compare

SpecTwo == InitTwo /\ [][NextTwo]_vars

\* The implicit copy constructor of Generator (the class declares a
\* destructor and no copy or move operation, so a copy or a move of a
\* Generator copies mGeneratorCoroutine).  The copy takes a free place d.
CopyGenerator(g, d) ==
    /\ fate = Running
    /\ generator[g].alive
    /\ generator[d] = NoGenerator
    /\ generator' = [generator EXCEPT ![d] = Generator(generator[g].mGeneratorCoroutine)]
    /\ thrown' = NoException
    /\ UNCHANGED <<body, frame, iterator, made, hist, seen, drives, fate>>

\* One generator, whose Generator object may be copied
NextCopy ==
    \/ Next
    \/ \E g \in Frames, d \in Frames : CopyGenerator(g, d)

SpecCopy == Init /\ [][NextCopy]_vars

\* ------------------------------------------------------------ the claims
ReturnsNormally(b) == \A i \in 1..Len(b) : b[i].op = "co_yield"
Made == 1..made

\* Iterator c came from begin(), and the coroutine was resumed by that call
\* and by operator++ on c only.
OnlyTraversal(c) ==
    /\ hist[c].born = "begin"
    /\ drives[hist[c].origin] = 1 + hist[c].adv

\* The values read of generator f, in the order they were read
Read(f) == [i \in 1..Len(seen[f]) |-> seen[f][i].val]
YieldedBy(b) == [i \in 1..Len(b) |-> b[i].arg]

\* C1: a generator that yields v1..vn and returns, traversed from one begin()
\* by * and ++ on the iterator: the read after k resumes is vk, reads come in
\* the order of the yields, the iterator equals end() exactly after the n-th
\* operator++, and a traversal that read at every position has read v1..vn.
C1_TraversalObservesYields ==
    \A c \in Made :
        LET f == hist[c].origin
            b == body[f]
            n == Len(b)
        IN  (ReturnsNormally(b) /\ OnlyTraversal(c)) =>
                /\ Equal(iterator[c], end) <=> (hist[c].adv = n)
                /\ \A i \in 1..Len(seen[f]) :
                      /\ seen[f][i].pos \in 1..n
                      /\ seen[f][i].val = b[seen[f][i].pos].arg
                      /\ i > 1 => seen[f][i - 1].pos < seen[f][i].pos
                /\ (Len(seen[f]) = n /\ Equal(iterator[c], end)) => Read(f) = YieldedBy(b)

C1_Witness ==
    \E c \in Made :
        LET f == hist[c].origin
        IN  /\ OnlyTraversal(c)
            /\ ReturnsNormally(body[f])
            /\ Len(body[f]) = MaxYields
            /\ body[f][1].arg # body[f][2].arg
            /\ hist[c].adv = MaxYields
            /\ Equal(iterator[c], end)
            /\ Read(f) = YieldedBy(body[f])

\* C2: a generator that throws e before any co_yield: begin() returns an
\* iterator that is not end(), whose promise holds e for operator* to rethrow,
\* and one operator++ later the iterator equals end().
C2_FailureBeforeYield ==
    \A c \in Made, e \in Failures :
        LET f == hist[c].origin
        IN  (body[f] = <<ThrowStmt(e)>> /\ OnlyTraversal(c)) =>
                /\ hist[c].adv = 0 =>
                      /\ NotEqual(iterator[c], end)
                      /\ exception(frame[f].mValue) = e
                /\ hist[c].adv >= 1 => Equal(iterator[c], end)

\* C3: a generator that yields v1 and then throws e: the first operator* gives
\* v1; after one operator++ the iterator is not end() and its promise holds e
\* for operator* to rethrow; after a second operator++ it equals end().
C3_FailureAfterYield ==
    \A c \in Made, v \in Values, e \in Failures :
        LET f == hist[c].origin
        IN  (body[f] = <<YieldStmt(v), ThrowStmt(e)>> /\ OnlyTraversal(c)) =>
                /\ hist[c].adv = 0 =>
                      /\ NotEqual(iterator[c], end)
                      /\ value(frame[f].mValue) = [ok |-> TRUE, val |-> v]
                /\ hist[c].adv = 1 =>
                      /\ NotEqual(iterator[c], end)
                      /\ exception(frame[f].mValue) = e
                /\ hist[c].adv >= 2 => Equal(iterator[c], end)

\* C4: a generator that returns without a co_yield: every iterator begin()
\* returns equals end(), and no value is ever held or read.
C4_EmptyGenerator ==
    \A f \in Frames :
        (body[f] = <<>> /\ frame[f].at # "none") =>
            /\ \A c \in Made : hist[c].origin = f => Equal(iterator[c], end)
            /\ frame[f].mValue.tag # "T"
            /\ seen[f] = <<>>

C4_Witness ==
    \E c \in Made :
        /\ hist[c].born = "begin"
        /\ body[hist[c].origin] = <<>>
        /\ frame[hist[c].origin].at = "final"
        /\ Equal(iterator[c], end)

Called(f) == frame[f].at # "none"
Drive == (\E g \in Frames : Begin(g)) \/ (\E c \in Cursors : Advance(c))

\* C5: once ~Generator has run, whatever the coroutine was doing (never
\* resumed, suspended at a co_yield, finished), the frame is destroyed, it was
\* destroyed once, and the guard the body held is released, once; nothing is
\* destroyed before that.
C5_DestructionTearsDownOnce ==
    \A g \in Frames :
        LET fr == frame[g]
        IN  Called(g) =>
                IF generator[g].alive
                THEN fr.destroyed = 0
                ELSE /\ fr.at = "destroyed"
                     /\ fr.destroyed = 1
                     /\ ~fr.held
                     /\ fr.released = (IF drives[g] > 0 THEN 1 ELSE 0)

C5_Witness ==
    \E g \in Frames :
        /\ ~generator[g].alive
        /\ Len(body[g]) = 2
        /\ frame[g].pc = 2
        /\ frame[g].destroyed = 1
        /\ frame[g].released = 1

\* C6: until begin() is called for the first time, the coroutine has run
\* nothing: it is at its initial suspend point (or destroyed there), has
\* yielded nothing, thrown nothing and acquired nothing.
C6_NothingRunsBeforeBegin ==
    \A f \in Frames :
        (Called(f) /\ drives[f] = 0) =>
            /\ frame[f].at \in {"initial", "destroyed"}
            /\ frame[f].pc = 1
            /\ frame[f].mValue = Monostate
            /\ ~frame[f].held
            /\ frame[f].released = 0
            /\ frame[f].escaped = NoException
            /\ seen[f] = <<>>

C6_Witness ==
    \E f \in Frames :
        /\ drives[f] = 0
        /\ body[f] # <<>>
        /\ ~generator[f].alive
        /\ frame[f].at = "destroyed"

\* C7: while its Generator is alive the frame is alive, also after the
\* coroutine has finished, and a frame is destroyed only by a step of
\* ~Generator.
C7_FrameLivesWithGenerator ==
    /\ [](\A g \in Frames :
            (Called(g) /\ generator[g].alive) =>
                /\ frame[g].at \in {"initial", "yield", "final"}
                /\ frame[g].destroyed = 0)
    /\ [][\A f \in Frames :
            (frame'[f].at = "destroyed" /\ frame[f].at # "destroyed") =>
                DestroyGenerator(f)]_vars

C7_Witness ==
    \E g \in Frames :
        /\ generator[g].alive
        /\ frame[g].at = "final"
        /\ drives[g] = 1 + Len(body[g])

\* C8: an operator++ that runs the coroutine to its end leaves the iterator
\* equal to end(); an iterator equal to end() stays equal to end(); and
\* operator++ on it resumes nothing and changes nothing.
C8_FinishedIsAbsorbing ==
    [][\A c \in Made :
          /\ (Advance(c) /\ frame[hist[c].origin].at # "final"
                         /\ frame'[hist[c].origin].at = "final")
                => Equal(iterator'[c], end)
          /\ Equal(iterator[c], end) => Equal(iterator'[c], end)
          /\ (Advance(c) /\ Equal(iterator[c], end))
                => UNCHANGED <<frame, iterator, drives, hist, fate>>]_vars

C8_Witness ==
    \E c \in Made :
        /\ hist[c].ended
        /\ hist[c].adv = MaxYields
        /\ frame[hist[c].origin].at = "final"
        /\ Equal(iterator[c], end)

\* C9: begin() and operator++ on a coroutine they may resume throw nothing at
\* their caller and do not end the program, also when the coroutine throws
\* while it is resumed.
C9_DrivesReturnNormally ==
    [][Drive => (thrown' = NoException /\ fate'.what # "std::terminate")]_vars

C9_Witness ==
    \E f \in Frames :
        /\ body[f] # <<>>
        /\ body[f][Len(body[f])].op = "throw"
        /\ frame[f].at = "final"
        /\ thrown = NoException
        /\ fate = Running

\* C10: what end() returns and every iterator whose operator++ ran its
\* coroutine to the end are all equal, whichever generator they come from.
Sentinels == {end} \cup {iterator[c] : c \in {d \in Made : hist[d].ended}}

C10_SentinelsAreEqual ==
    \A a \in Sentinels, b \in Sentinels : Equal(a, b) /\ ~NotEqual(a, b)

C10_Witness ==
    \E c \in Made, d \in Made :
        /\ hist[c].origin # hist[d].origin
        /\ hist[c].ended /\ hist[d].ended
        /\ Equal(iterator[c], iterator[d])
        /\ Equal(iterator[c], end)

\* C11: no two live Generator objects hold the same coroutine handle, and no
\* frame is destroyed twice.
Owners(f) == {g \in Frames : generator[g].alive /\ generator[g].mGeneratorCoroutine = f}

C11_ExclusiveOwnership ==
    /\ \A f \in Frames : Cardinality(Owners(f)) <= 1
    /\ fate.what # "destroy of a destroyed coroutine"

\* C12: every iterator of a generator whose coroutine has finished equals
\* end(), also a copy made before another iterator ran the coroutine to its end.
C12_FinishedIsSentinel ==
    \A c \in Made :
        (Called(hist[c].origin) /\ frame[hist[c].origin].at = "final")
            => Equal(iterator[c], end)

\* C13: the coroutine has run at most as many co_yield statements as it was
\* resumed, and while it is suspended at a co_yield mValue holds the value of
\* that co_yield, the last one it ran.
YieldsDone(f) ==
    Cardinality({i \in 1..(frame[f].pc - 1) : body[f][i].op = "co_yield"})

C13_OneYieldPerDrive ==
    \A f \in Frames :
        Called(f) =>
            /\ YieldsDone(f) <= drives[f]
            /\ frame[f].at = "yield" =>
                  /\ body[f][frame[f].pc - 1].op = "co_yield"
                  /\ frame[f].mValue = Holds(body[f][frame[f].pc - 1].arg)

C13_Witness ==
    \E f \in Frames :
        /\ frame[f].at = "yield"
        /\ drives[f] = 2
        /\ YieldsDone(f) = 2
        /\ body[f][1].arg # body[f][2].arg
        /\ frame[f].mValue = Holds(body[f][2].arg)

\* C14: begin() on a generator suspended at its k-th co_yield resumes it from
\* there: the iterator it returns stands at the (k+1)-th co_yield, or equals
\* end() when the coroutine finishes; no operation moves the coroutine back,
\* and what is read is the value of the co_yield it is suspended at.
C14_BeginDoesNotRestart ==
    [][/\ \A g \in Frames :
            LET h == generator[g].mGeneratorCoroutine
            IN  (Begin(g) /\ frame[h].at = "yield") =>
                    IF frame'[h].at = "yield"
                    THEN /\ frame'[h].pc = frame[h].pc + 1
                         /\ frame'[h].mValue = Holds(body[h][frame[h].pc].arg)
                         /\ iterator'[made'] = GeneratorIterator(h)
                    ELSE /\ frame'[h].at = "final"
                         /\ Equal(iterator'[made'], end)
       /\ \A f \in Frames :
            /\ frame'[f].pc >= frame[f].pc
            /\ Len(seen'[f]) > Len(seen[f]) =>
                  seen'[f][Len(seen'[f])] =
                      [pos |-> drives[f], val |-> body[f][frame[f].pc - 1].arg]]_vars

C14_Witness ==
    /\ made = 2
    /\ hist[1].born = "begin" /\ hist[2].born = "begin"
    /\ hist[1].origin = hist[2].origin
    /\ frame[hist[2].origin].at = "yield"
    /\ frame[hist[2].origin].pc = 3
    /\ iterator[2] = GeneratorIterator(hist[2].origin)

\* C15: end(), operator== and operator* change no frame, no iterator and no
\* Generator, so reading twice gives the same; mValue and the place the
\* coroutine is suspended at change only in begin() and operator++.
Pure == (\E g \in Frames : End(g)) \/ Compare \/ (\E c \in Cursors : Deref(c))

C15_ReadsChangeNothing ==
    [][/\ Pure => UNCHANGED <<frame, iterator, generator, made, drives>>
       /\ \A f \in Frames :
            (frame'[f].mValue # frame[f].mValue \/ frame'[f].pc # frame[f].pc) => Drive]_vars

C15_Witness ==
    \E c \in Made :
        LET f == hist[c].origin
        IN  /\ fate = Running
            /\ iterator[c] = GeneratorIterator(f)
            /\ frame[f].at = "yield"
            /\ seen[f] # <<>>
            /\ seen[f][Len(seen[f])] = [pos |-> drives[f], val |-> frame[f].mValue.val]
            /\ frame[f].mValue.tag = "T"

\* C16: no begin() and no operator++ resumes a coroutine that is suspended at
\* its final suspend point.
C16_FinishedIsNotResumed ==
    fate.what # "resume of a finished coroutine"

\* C17: an iterator from begin() that alone drives its generator and is not
\* equal to end() has a promise whose mValue holds a value or an exception,
\* not std::monostate (as long as the frame exists).
C17_LiveIteratorHasValue ==
    \A c \in Made :
        LET f == hist[c].origin
        IN  (OnlyTraversal(c) /\ frame[f].at # "destroyed" /\ NotEqual(iterator[c], end))
                => frame[f].mValue.tag \in {"T", "exception_ptr"}

C17_Witness ==
    \E c \in Made :
        /\ OnlyTraversal(c)
        /\ hist[c].adv >= 1
        /\ NotEqual(iterator[c], end)
        /\ frame[hist[c].origin].at = "yield"
        /\ frame[hist[c].origin].mValue.tag = "T"

\* C18: no operator++ and no operator* reaches a frame that ~Generator has
\* destroyed.
C18_NoUseAfterDestroy ==
    fate.what \notin {"resume of a destroyed coroutine", "read of a destroyed coroutine"}

\* C19: finished() holds exactly when the coroutine is suspended at its final
\* suspend point; it does not hold for a generator that was never resumed.
C19_FinishedIffFinal ==
    \A f \in Frames :
        (Called(f) /\ frame[f].at # "destroyed") =>
            (finished(frame[f].mValue) <=> frame[f].at = "final")

====
